---------------------------- MODULE Spec2Model ----------------------------
(***************************************************************************)
(* A model of package query of creachadair/twitter (src/query/query.go):   *)
(* the structured builder for search query strings.                        *)
(*                                                                         *)
(* A Go string is modelled as a sequence of one-character strings, so that *)
(* trimming, prefix removal, quoting, joining and parenthesising are       *)
(* computed as the code computes them.  A Query value is a record tagged   *)
(* with the name of its Go type:                                           *)
(*     solo      [type |-> "solo",     s   |-> string]                     *)
(*     quoted    [type |-> "quoted",   tag |-> string, arg |-> string]     *)
(*     nsolo     [type |-> "nsolo",    s   |-> string]                     *)
(*     orQuery   [type |-> "orQuery",  qs  |-> sequence of Query]          *)
(*     andQuery  [type |-> "andQuery", qs  |-> sequence of Query]          *)
(*     notQuery  [type |-> "notQuery", sub |-> Query]                      *)
(*                                                                         *)
(* The state is a caller's session with the (stateless) Builder: a stack   *)
(* of the queries it has built and not yet consumed, and a record of the   *)
(* last builder call.  A leaf call pushes its result; And/Or pop their     *)
(* arguments and push the result; Not replaces the top of the stack.       *)
(*                                                                         *)
(* The paginated queries of packages tweets (src/unnamed/part_020) and    *)
(* lists (src/lists/lists.go) are modelled by query, the one Query value   *)
(* the caller holds (its package and its request's Params), and call, the  *)
(* record of the last constructor or method call on it.                    *)
(*                                                                         *)
(* A streaming call (jhttp Client.Stream, or tweets Stream.Invoke over the *)
(* twitter Client.Stream) is modelled by strm: the position of the call,   *)
(* the context, the response body, the goroutine that waits for the        *)
(* context, the messages sent and delivered, and the errors returned.      *)
(***************************************************************************)
EXTENDS Integers, Sequences, FiniteSets, TLC

VARIABLES stack, last, query, call, strm

vars == <<stack, last, query, call, strm>>

(***************************************************************************)
(* Bounds of the model.                                                    *)
(***************************************************************************)
MaxStack == 2   \* queries held by the caller at once
MaxNodes == 4   \* tree nodes held by the caller at once
MaxWords == 2   \* arguments of one All/Some call
MaxLen   == 4   \* characters of a raw string given to a leaf constructor
MaxPages == 2   \* different page tokens the server hands out
MaxMsgs  == 2   \* messages the server sends on one stream

(***************************************************************************)
(* Strings.                                                                *)
(***************************************************************************)
SP  == " "
TAB == "\t"

\* The inputs the caller draws from.
WordInputs == { <<"c","a","t">>, <<SP,"b","i","g",SP,"d","o","g">> }

RECURSIVE String(_), Valid(_), isCompound(_), compile(_), isStandalone(_),
          negateAll(_), Join(_, _), Size(_), SizeAll(_), Nodes(_), NodesAll(_)

\* strings.Join(elems, sep)
Join(elems, sep) ==
    IF Len(elems) = 0 THEN <<>>
    ELSE IF Len(elems) = 1 THEN elems[1]
    ELSE elems[1] \o sep \o Join(Tail(elems), sep)

\* unicode.IsSpace over the characters the inputs use
IsSpace(c) == c \in {" ", "\t", "\n", "\r"}

RECURSIVE TrimLeft(_), TrimRight(_)
TrimLeft(s) ==
    IF Len(s) > 0 /\ IsSpace(s[1]) THEN TrimLeft(Tail(s)) ELSE s
TrimRight(s) ==
    IF Len(s) > 0 /\ IsSpace(s[Len(s)])
    THEN TrimRight(SubSeq(s, 1, Len(s) - 1)) ELSE s

\* strings.TrimSpace(s)
TrimSpace(s) == TrimRight(TrimLeft(s))

\* strings.ContainsAny(s, chars)
ContainsAny(s, chars) == \E i \in 1..Len(s) : s[i] \in chars

\* strings.HasPrefix(s, prefix)
HasPrefix(s, prefix) ==
    Len(s) >= Len(prefix) /\ SubSeq(s, 1, Len(prefix)) = prefix

\* strings.TrimPrefix(s, prefix)
TrimPrefix(s, prefix) ==
    IF HasPrefix(s, prefix) THEN SubSeq(s, Len(prefix) + 1, Len(s)) ELSE s

\* func untag(tag, s string) string
\* untag as it would be if it kept the prefix
untag_keep(tag, s) == s

untag(tag, s) == TrimPrefix(s, tag)

(***************************************************************************)
(* The query types and their constructors.                                 *)
(***************************************************************************)
solo(s)          == [s |-> s, type |-> "solo"]
quoted(tag, arg) == [tag |-> tag, type |-> "quoted", arg |-> arg]
nsolo(s)         == [s |-> s, type |-> "nsolo"]
orQuery(qs)      == [type |-> "orQuery", qs |-> qs]
andQuery(qs)     == [type |-> "andQuery", qs |-> qs]
notQuery(sub)    == [type |-> "notQuery", sub |-> sub]

\* newWord as it would be without trimming
newWord_notrim(s) ==
    IF ContainsAny(s, {SP, TAB}) THEN quoted(<<>>, s) ELSE solo(s)

\* newWord as it would be if any whitespace inside the text made it quoted
newWord_anyspace(s) ==
    LET trim == TrimSpace(s)
    IN  IF ContainsAny(trim, {SP, TAB, "\n", "\r"}) THEN quoted(<<>>, trim)
        ELSE solo(trim)

\* func newWord(s string) Query
newWord(s) ==
    LET trim == TrimSpace(s)
    IN  IF ContainsAny(trim, {SP, TAB}) THEN quoted(<<>>, trim) ELSE solo(trim)

\* func words(ss []string) []Query
words(ss) == [i \in 1..Len(ss) |-> newWord(ss[i])]

\* The closure newOrQuery passes to collapse: vs, _ := q.(orQuery).
\* Every orQuery the package constructs comes from collapse, whose result
\* (var all []Query, grown by append) is nil exactly when it is empty, so
\* "vs != nil" is "q is an orQuery with at least one element"; an empty
\* result stands for nil.
sameOr(q)  == IF q.type = "orQuery" THEN q.qs ELSE <<>>
sameAnd(q) == IF q.type = "andQuery" THEN q.qs ELSE <<>>

\* collapse as it would be if it put each argument before the ones collected
RECURSIVE collapse_prepend(_, _)
collapse_prepend(qs, kind) ==
    IF Len(qs) = 0 THEN <<>>
    ELSE LET q  == qs[1]
             vs == IF kind = "orQuery" THEN sameOr(q) ELSE sameAnd(q)
         IN  collapse_prepend(Tail(qs), kind) \o (IF vs # <<>> THEN vs ELSE <<q>>)

\* collapse as it would be without the splice of same-kind arguments
collapse_nosplice(qs, kind) == qs

\* func collapse(qs []Query, same func(Query) []Query) []Query,
\* with same selected by kind.
RECURSIVE collapse(_, _)
collapse(qs, kind) ==
    IF Len(qs) = 0 THEN <<>>
    ELSE LET q  == qs[1]
             vs == IF kind = "orQuery" THEN sameOr(q) ELSE sameAnd(q)
         IN  (IF vs # <<>> THEN vs ELSE <<q>>) \o collapse(Tail(qs), kind)

\* func newOrQuery(qs []Query) Query
newOrQuery(qs) ==
    IF Len(qs) = 1 THEN qs[1] ELSE orQuery(collapse(qs, "orQuery"))

\* newAndQuery as it would be without the single-argument case
newAndQuery_always(qs) == andQuery(collapse(qs, "andQuery"))

\* func newAndQuery(qs []Query) Query
newAndQuery(qs) ==
    IF Len(qs) = 1 THEN qs[1] ELSE andQuery(collapse(qs, "andQuery"))

\* newNotQuery as it would be without double-negation elimination
newNotQuery_wrap(q) == notQuery(q)

\* newNotQuery as it would be with De Morgan rewriting done at construction
newNotQuery_rewrite(q) ==
    CASE q.type = "notQuery" -> q.sub
      [] q.type = "andQuery" -> newOrQuery(negateAll(q.qs))
      [] q.type = "orQuery"  -> newAndQuery(negateAll(q.qs))
      [] OTHER               -> notQuery(q)

\* func newNotQuery(q Query) Query
newNotQuery(q) ==
    IF q.type = "notQuery" THEN q.sub ELSE notQuery(q)

\* func negateAll(qs []Query) []Query
negateAll(qs) == [i \in 1..Len(qs) |-> newNotQuery(qs[i])]

(***************************************************************************)
(* Valid.                                                                  *)
(***************************************************************************)
\* func isStandalone(qs []Query) bool
isStandalone(qs) == \E i \in 1..Len(qs) : Valid(qs[i])

\* Valid of a filter as it would be if filters counted as standalone
nsolo_Valid_standalone(q) == TRUE

\* Valid of a conjunction as it would be if every child had to be valid
andQuery_Valid_all(q) ==
    Len(q.qs) # 0 /\ \A i \in 1..Len(q.qs) : Valid(q.qs[i])

\* Valid of a disjunction as it would be with "every child" and no length test
orQuery_Valid_vacuous(q) == \A i \in 1..Len(q.qs) : Valid(q.qs[i])

\* Valid of a negation as it would be if negating flipped validity
notQuery_Valid_flip(q) == ~Valid(q.sub)

solo_Valid(q)     == TRUE
quoted_Valid(q)   == TRUE
nsolo_Valid(q)    == FALSE
orQuery_Valid(q)  == Len(q.qs) # 0 /\ isStandalone(q.qs)
andQuery_Valid(q) == Len(q.qs) # 0 /\ isStandalone(q.qs)
notQuery_Valid(q) == Valid(q.sub)

\* Query.Valid, dispatched on the dynamic type
Valid(q) ==
    CASE q.type = "solo"     -> solo_Valid(q)
      [] q.type = "quoted"   -> quoted_Valid(q)
      [] q.type = "nsolo"    -> nsolo_Valid(q)
      [] q.type = "orQuery"  -> orQuery_Valid(q)
      [] q.type = "andQuery" -> andQuery_Valid(q)
      [] q.type = "notQuery" -> notQuery_Valid(q)

(***************************************************************************)
(* String.                                                                 *)
(***************************************************************************)
\* isCompound as it would be if it did not look through a negation
isCompound_noneg(q) ==
    CASE q.type = "andQuery" -> Len(q.qs) > 1
      [] q.type = "orQuery"  -> Len(q.qs) > 1
      [] OTHER               -> FALSE

\* func isCompound(q Query) bool
isCompound(q) ==
    CASE q.type = "andQuery" -> Len(q.qs) > 1
      [] q.type = "orQuery"  -> Len(q.qs) > 1
      [] q.type = "notQuery" -> isCompound(q.sub)
      [] OTHER               -> FALSE

\* func compile(qs []Query) []string
compile(qs) ==
    [i \in 1..Len(qs) |->
        IF isCompound(qs[i]) THEN <<"(">> \o String(qs[i]) \o <<")">>
        ELSE String(qs[i])]

solo_String(q)     == q.s
quoted_String(q)   == q.tag \o <<"\"">> \o q.arg \o <<"\"">>
nsolo_String(q)    == q.s
orQuery_String(q)  == Join(compile(q.qs), <<SP, "O", "R", SP>>)
andQuery_String(q) == Join(compile(q.qs), <<SP>>)

\* String of a negation as it would be without De Morgan rewriting
notQuery_String_prefix(q) == <<"-">> \o String(q.sub)

\* String of a negation as it would be with the two rewritings swapped
notQuery_String_swapped(q) ==
    CASE q.sub.type = "andQuery" -> String(newAndQuery(negateAll(q.sub.qs)))
      [] q.sub.type = "orQuery"  -> String(newOrQuery(negateAll(q.sub.qs)))
      [] OTHER                   -> <<"-">> \o String(q.sub)

\* String of a negation as it would be with a space after the minus sign
notQuery_String_spaced(q) ==
    CASE q.sub.type = "andQuery" -> String(newOrQuery(negateAll(q.sub.qs)))
      [] q.sub.type = "orQuery"  -> String(newAndQuery(negateAll(q.sub.qs)))
      [] OTHER                   -> <<"-", SP>> \o String(q.sub)

notQuery_String(q) ==
    CASE q.sub.type = "andQuery" -> String(newOrQuery(negateAll(q.sub.qs)))
      [] q.sub.type = "orQuery"  -> String(newAndQuery(negateAll(q.sub.qs)))
      [] OTHER                   -> <<"-">> \o String(q.sub)

\* Query.String, dispatched on the dynamic type
String(q) ==
    CASE q.type = "solo"     -> solo_String(q)
      [] q.type = "quoted"   -> quoted_String(q)
      [] q.type = "nsolo"    -> nsolo_String(q)
      [] q.type = "orQuery"  -> orQuery_String(q)
      [] q.type = "andQuery" -> andQuery_String(q)
      [] q.type = "notQuery" -> notQuery_String(q)

(***************************************************************************)
(* The Builder's methods.                                                  *)
(***************************************************************************)
Builder_All(ss)   == newAndQuery(words(ss))
Builder_Some(ss)  == newOrQuery(words(ss))
Builder_Word(s)   == newWord(s)
Builder_And(qs)   == newAndQuery(qs)
Builder_Or(qs)    == newOrQuery(qs)
Builder_Not(q)    == newNotQuery(q)
Builder_IsVerified == nsolo(<<"i","s",":","v","e","r","i","f","i","e","d">>)
Builder_From(s)    == solo(<<"f","r","o","m",":">> \o untag(<<"@">>, s))
Builder_Hashtag(s) == solo(<<"#">> \o untag(<<"#">>, s))
Builder_Mention(s) == solo(<<"@">> \o untag(<<"@">>, s))
Builder_IsRetweet  == nsolo(<<"i","s",":","r","e","t","w","e","e","t">>)

(***************************************************************************)
(* The caller's session.                                                   *)
(***************************************************************************)
\* the number of nodes of a tree, and of a sequence of trees
Size(q) ==
    CASE q.type \in {"orQuery", "andQuery"} -> 1 + SizeAll(q.qs)
      [] q.type = "notQuery"                -> 1 + Size(q.sub)
      [] OTHER                              -> 1
SizeAll(qs) == IF Len(qs) = 0 THEN 0 ELSE Size(qs[1]) + SizeAll(Tail(qs))

\* the nodes of a tree, and of a sequence of trees
Nodes(q) ==
    CASE q.type \in {"orQuery", "andQuery"} -> {q} \cup NodesAll(q.qs)
      [] q.type = "notQuery"                -> {q} \cup Nodes(q.sub)
      [] OTHER                              -> {q}
NodesAll(qs) == IF Len(qs) = 0 THEN {} ELSE Nodes(qs[1]) \cup NodesAll(Tail(qs))

\* the sequences over S of length at most n
SeqsUpTo(S, n) == UNION { [1..k -> S] : k \in 0..n }

\* no paginated query constructed yet, and no call made on one
NoParams == [k \in {} |-> <<>>]
NoRsp    == [ok |-> FALSE, data |-> "empty", meta |-> "none", next |-> <<>>]
NoQuery  == [pkg |-> "none", params |-> NoParams, made |-> FALSE]
NoCall   == [op |-> "New", sent |-> NoParams, rsp |-> NoRsp, err |-> "nil",
             more |-> FALSE, token |-> <<>>]

\* no streaming call made yet.  An error value is the sequence of its
\* layers, outermost first: <<>> is nil, <<"ErrStopStreaming">> and <<"EOF">>
\* the sentinels, <<"callback", "EOF">> an *Error with Message "callback"
\* whose Err is io.EOF, <<"callback">> an *Error whose Err is nil.
NoStream ==
    [impl |-> "none", max |-> 0, pc |-> "idle", ctx |-> "live",
     cancelled |-> FALSE, helper |-> "none", body |-> "none", sent |-> 0,
     cur |-> 0, delivered |-> <<>>, nr |-> 0, cbret |-> <<>>, fret |-> <<>>,
     how |-> "", err |-> <<>>, ret |-> <<>>]

Init ==
    /\ stack = <<>>
    /\ last = [op |-> "New", args |-> <<>>, result |-> <<>>]
    /\ query = NoQuery
    /\ call = NoCall
    /\ strm = NoStream

\* a call that takes no query argument pushes its result
Push(op, args, q) ==
    /\ Len(stack) < MaxStack
    /\ SizeAll(stack) + Size(q) <= MaxNodes
    /\ stack' = Append(stack, q)
    /\ last' = [op |-> op, args |-> args, result |-> q]
    /\ UNCHANGED <<query, call, strm>>

\* a call on the top n queries of the stack replaces them by its result
Apply(op, n, q) ==
    /\ SizeAll(stack) - SizeAll(SubSeq(stack, Len(stack) - n + 1, Len(stack)))
          + Size(q) <= MaxNodes
    /\ Len(stack) - n + 1 <= MaxStack
    /\ stack' = Append(SubSeq(stack, 1, Len(stack) - n), q)
    /\ last' = [op |-> op,
                args |-> SubSeq(stack, Len(stack) - n + 1, Len(stack)),
                result |-> q]
    /\ UNCHANGED <<query, call, strm>>

TopN(n) == SubSeq(stack, Len(stack) - n + 1, Len(stack))

Word == \E s \in WordInputs : Push("Word", <<>>, Builder_Word(s))

IsVerified == Push("IsVerified", <<>>, Builder_IsVerified)

All == \E ss \in SeqsUpTo(WordInputs, MaxWords) :
          Push("All", words(ss), Builder_All(ss))

Some == \E ss \in SeqsUpTo(WordInputs, MaxWords) :
          Push("Some", words(ss), Builder_Some(ss))

And == \E n \in 0..Len(stack) : Apply("And", n, Builder_And(TopN(n)))

Or == \E n \in 0..Len(stack) : Apply("Or", n, Builder_Or(TopN(n)))

Not == Len(stack) > 0 /\ Apply("Not", 1, Builder_Not(TopN(1)[1]))

Next ==
    \/ Word
    \/ IsVerified
    \/ All
    \/ Some
    \/ And
    \/ Or
    \/ Not

Spec == Init /\ [][Next]_vars

(***************************************************************************)
(* A session that calls the leaf constructors on raw strings and negates   *)
(* what they return.  The caller holds the one query returned last; last   *)
(* records the raw string (or the query negated) as the argument.          *)
(***************************************************************************)
\* the raw strings given to Word: a letter, space, tab, and newline for the
\* whitespace that is neither
RawWords == SeqsUpTo({"a", SP, TAB, "\n"}, MaxLen)

\* the raw strings given to From, Hashtag and Mention: a letter and sigils
RawNames == SeqsUpTo({"a", "#", "@"}, MaxLen)

\* a call returns q for the argument arg
Return(op, arg, q) ==
    /\ stack' = <<q>>
    /\ last' = [op |-> op, args |-> <<arg>>, result |-> q]
    /\ UNCHANGED <<query, call, strm>>

CallWord == \E s \in RawWords : Return("Word", s, Builder_Word(s))

CallFrom == \E s \in RawNames : Return("From", s, Builder_From(s))

CallHashtag == \E s \in RawNames : Return("Hashtag", s, Builder_Hashtag(s))

CallMention == \E s \in RawNames : Return("Mention", s, Builder_Mention(s))

CallIsRetweet ==
    /\ stack' = <<Builder_IsRetweet>>
    /\ last' = [op |-> "IsRetweet", args |-> <<>>, result |-> Builder_IsRetweet]
    /\ UNCHANGED <<query, call, strm>>

CallNot ==
    /\ Len(stack) > 0
    /\ Return("Not", stack[1], Builder_Not(stack[1]))

NextLeaf ==
    \/ CallWord
    \/ CallFrom
    \/ CallHashtag
    \/ CallMention
    \/ CallIsRetweet
    \/ CallNot

SpecLeaf == Init /\ [][NextLeaf]_vars

(***************************************************************************)
(* Paginated queries: tweets.Query and lists.Query.                        *)
(*                                                                         *)
(* query is [pkg, params, made]: the package of the Query the caller       *)
(* holds, the Params map of its request, a function from parameter names   *)
(* to sequences of strings, and whether that map was made (a map that was  *)
(* not is nil: it reads as empty, and writing to it panics).  call records *)
(* the last call and the last Invoke: the name of the last call, the Params the last call: its name, the Params *)
(* sent with the request, the server's response, the error returned        *)
(* ("nil" for none), and the value returned by HasMorePages (more) or by   *)
(* PageToken (token).  A response is [ok, data, meta, next]: whether the   *)
(* call succeeded in transport and status, whether the data is absent      *)
(* ("empty"), decodes ("good") or does not ("bad"), likewise the metadata  *)
(* ("none", "good", "bad"), and the next_token of decodable metadata.      *)
(***************************************************************************)
\* const nextTokenParam, by package
nextTokenParam(pkg) ==
    IF pkg = "lists"
    THEN <<"p","a","g","i","n","a","t","i","o","n","_","t","o","k","e","n">>
    ELSE <<"n","e","x","t","_","t","o","k","e","n">>

IDS == <<"i","d","s">>

\* func (p Params) Add(name string, values ...string)
Params_Add(p, name, values) ==
    IF Len(values) = 0 THEN p
    ELSE [k \in DOMAIN p \cup {name} |->
             IF k = name
             THEN (IF name \in DOMAIN p THEN p[name] ELSE <<>>) \o values
             ELSE p[k]]

\* func (p Params) Set(name, value string)
Params_Set(p, name, value) ==
    [k \in DOMAIN p \cup {name} |-> IF k = name THEN <<value>> ELSE p[k]]

\* func (p Params) Reset(name string)
Params_Reset(p, name) == [k \in DOMAIN p \ {name} |-> p[k]]

\* the page tokens the server hands out: "t", "tt", ...
PageTokens == { [i \in 1..n |-> "t"] : n \in 1..MaxPages }

\* the responses of the server to one request
Responses ==
    { NoRsp } \cup
    { [ok |-> TRUE, data |-> d, meta |-> "none", next |-> <<>>] :
         d \in {"empty", "good", "bad"} } \cup
    { [ok |-> TRUE, data |-> d, meta |-> "bad", next |-> <<>>] :
         d \in {"empty", "good", "bad"} } \cup
    { [ok |-> TRUE, data |-> d, meta |-> "good", next |-> t] :
         d \in {"empty", "good", "bad"}, t \in {<<>>} \cup PageTokens }

PANIC == "panic: assignment to entry in nil map"

\* the error Query.Invoke returns for a response, or PANIC if it panics in
\* Params.Set instead of returning
Invoke_err(q, rsp) ==
    IF ~rsp.ok THEN "call"
    ELSE IF rsp.data = "bad" THEN "decoding data"
    ELSE IF ~q.made THEN PANIC
    ELSE IF rsp.meta = "bad" THEN "decoding response metadata"
    ELSE "nil"

\* Invoke's update of the Params as it would be without the first Set, which
\* clears the token before the metadata are decoded
Invoke_params_noclear(p, name, rsp) ==
    IF ~rsp.ok \/ rsp.data = "bad" \/ rsp.meta = "none" \/ rsp.meta = "bad" THEN p
    ELSE Params_Set(p, name, rsp.next)

\* Invoke's update of the Params as it would be without the second Set
Invoke_params_once(p, name, rsp) ==
    IF ~rsp.ok \/ rsp.data = "bad" THEN p ELSE Params_Set(p, name, <<>>)

\* Query.Invoke's update of the request's Params
Invoke_params(p, name, rsp) ==
    IF ~rsp.ok \/ rsp.data = "bad" THEN p
    ELSE LET cleared == Params_Set(p, name, <<>>)
         IN  IF rsp.meta = "none" \/ rsp.meta = "bad" THEN cleared
             ELSE Params_Set(cleared, name, rsp.next)

\* HasMorePages as it would be if it only tested the presence of the parameter
HasMorePages_absent(q) == nextTokenParam(q.pkg) \notin DOMAIN q.params

\* func (q Query) HasMorePages() bool
HasMorePages(q) ==
    \/ nextTokenParam(q.pkg) \notin DOMAIN q.params
    \/ q.params[nextTokenParam(q.pkg)][1] # <<>>

\* func (q Query) PageToken() string
PageToken(q) ==
    IF /\ nextTokenParam(q.pkg) \in DOMAIN q.params
       /\ Len(q.params[nextTokenParam(q.pkg)]) # 0
    THEN q.params[nextTokenParam(q.pkg)][1]
    ELSE <<>>

\* a call that returns no value of its own
Called(op) ==
    [op |-> op, sent |-> NoParams, rsp |-> NoRsp, err |-> "nil",
     more |-> FALSE, token |-> <<>>]

\* tweets.Lookup(id, nil)
tweets_Lookup ==
    /\ call.err # PANIC
    /\ query' = [pkg |-> "tweets", params |-> Params_Add(NoParams, IDS, <<<<"1">>>>),
                 made |-> TRUE]
    /\ call' = Called("Lookup")
    /\ UNCHANGED <<stack, last, strm>>

\* lists.Lookup(id, nil)
lists_Lookup ==
    /\ call.err # PANIC
    /\ query' = [pkg |-> "lists", params |-> NoParams, made |-> TRUE]
    /\ call' = Called("Lookup")
    /\ UNCHANGED <<stack, last, strm>>

\* lists.Create(name, description, private): the request has no Params map,
\* and encodeErr is nil as json.Marshal of the three fields cannot fail
lists_Create ==
    /\ call.err # PANIC
    /\ query' = [pkg |-> "lists", params |-> NoParams, made |-> FALSE]
    /\ call' = Called("Create")
    /\ UNCHANGED <<stack, last, strm>>

Invoke ==
    /\ query.pkg # "none"
    /\ call.err # PANIC
    /\ \E rsp \in Responses :
          /\ query' = IF Invoke_err(query, rsp) = PANIC THEN query
                ELSE [query EXCEPT
                !.params = Invoke_params(query.params, nextTokenParam(query.pkg), rsp)]
          /\ call' = [op |-> "Invoke", sent |-> query.params, rsp |-> rsp,
                      err |-> Invoke_err(query, rsp), more |-> FALSE, token |-> <<>>]
    /\ UNCHANGED <<stack, last, strm>>

CallHasMorePages ==
    /\ query.pkg # "none"
    /\ call.err # PANIC
    /\ call' = [call EXCEPT !.op = "HasMorePages", !.more = HasMorePages(query),
                              !.token = <<>>]
    /\ UNCHANGED <<stack, last, query, strm>>

CallPageToken ==
    /\ query.pkg = "tweets"
    /\ call.err # PANIC
    /\ call' = [call EXCEPT !.op = "PageToken", !.token = PageToken(query),
                              !.more = FALSE]
    /\ UNCHANGED <<stack, last, query, strm>>

ResetPageToken ==
    /\ query.pkg # "none"
    /\ call.err # PANIC
    /\ query' = [query EXCEPT
          !.params = Params_Reset(query.params, nextTokenParam(query.pkg))]
    /\ call' = Called("ResetPageToken")
    /\ UNCHANGED <<stack, last, strm>>

NextPages ==
    \/ tweets_Lookup
    \/ lists_Lookup
    \/ lists_Create
    \/ Invoke
    \/ CallHasMorePages
    \/ CallPageToken
    \/ ResetPageToken

SpecPages == Init /\ [][NextPages]_vars

(***************************************************************************)
(* The pagination loop of the package documentation and of                 *)
(* TestSearchPages:                                                        *)
(*     q := Lookup(...); for q.HasMorePages() { q.Invoke(ctx, cli) }       *)
(* after which the caller may reset the page token and run the loop again. *)
(***************************************************************************)
\* q := tweets.Lookup(...) or lists.Lookup(...)
LoopStart ==
    /\ query.pkg = "none"
    /\ tweets_Lookup \/ lists_Lookup

\* the loop condition: q.HasMorePages()
LoopTest ==
    /\ call.op \in {"Lookup", "Invoke", "ResetPageToken"}
    /\ CallHasMorePages

\* the loop body, entered if the condition was true: q.Invoke(ctx, cli)
LoopBody ==
    /\ call.op = "HasMorePages"
    /\ call.more
    /\ Invoke

\* after the loop: q.ResetPageToken()
LoopReset ==
    /\ call.op = "HasMorePages"
    /\ ~call.more
    /\ ResetPageToken

NextLoop ==
    \/ LoopStart
    \/ LoopTest
    \/ LoopBody
    \/ LoopReset

\* the loop is a sequential program that keeps running: the condition is
\* evaluated, and Invoke is called and returns
SpecLoop ==
    /\ Init /\ [][NextLoop]_vars
    /\ WF_vars(LoopTest)
    /\ WF_vars(LoopBody)

(***************************************************************************)
(* Streaming: jhttp Client.Stream / Client.stream, and tweets              *)
(* Stream.Invoke over the twitter Client.Stream / Client.stream.           *)
(*                                                                         *)
(* strm.pc is the position of the call: "idle" before it, "status" at the  *)
(* status check of stream, "decode" at dec.Decode, "callback" at the call  *)
(* of f, "return" when stream is about to return (its deferred calls and   *)
(* the rest of Stream still to run), "done" when Stream has returned.      *)
(* strm.how records the path stream returned by.                           *)
(***************************************************************************)
\* the Message fields of the *Error values the clients build
ErrorMessages ==
    {"issuing request", "request failed", "decoding message from stream",
     "decoding stream response", "decoding tweet data", "callback"}

\* err.(*Error): the dynamic type of err is *Error
IsError(err) == err # <<>> /\ err[1] \in ErrorMessages

\* errors.Is(err, target), *Error unwrapping to its Err field
errors_Is(err, target) == \E i \in 1..Len(err) : err[i] = target

\* func (c *Client) Stream of jhttp: what it returns for the error of stream
jhttp_Stream_return(err) ==
    IF errors_Is(err, "ErrStopStreaming") THEN <<>>
    ELSE IF ~errors_Is(err, "EOF")
         THEN (IF IsError(err) THEN err ELSE <<"callback">> \o err)
    ELSE <<>>

\* func (c *Client) Stream of twitter: what it returns for the error of stream
twitter_Stream_return(err) ==
    IF errors_Is(err, "ErrStopStreaming") THEN <<>>
    ELSE IF ~errors_Is(err, "EOF") THEN err
    ELSE <<>>

\* the closure of Stream.Invoke as it would be if it stopped once nr reached
\* maxResults or more, positive or not
Invoke_callback_atleast(max, nr, tweetOK, r) ==
    IF ~tweetOK THEN <<"decoding tweet data", "syntax">>
    ELSE IF r # <<>> THEN r
    ELSE IF nr >= max THEN <<"ErrStopStreaming">>
    ELSE <<>>

\* the closure Stream.Invoke of tweets passes to cli.Stream: what it returns
\* on its nr-th invocation, the tweet decoding or not and the user's
\* callback (called only if it does) returning r
Invoke_callback(max, nr, tweetOK, r) ==
    IF ~tweetOK THEN <<"decoding tweet data", "syntax">>
    ELSE IF r # <<>> THEN r
    ELSE IF max > 0 /\ nr = max THEN <<"ErrStopStreaming">>
    ELSE <<>>

\* what a user's callback may return
CallbackReturns == {<<>>, <<"ErrStopStreaming">>, <<"EOF">>, <<"other">>}

\* Stream is called: c.start fails, or returns a response with an open body
StreamStart ==
    /\ strm.pc = "idle"
    /\ \E impl \in {"jhttp", "tweets"} : \E max \in -1..MaxMsgs : \E ok \in BOOLEAN :
          /\ impl = "jhttp" => max = 0
          /\ strm' = IF ok
                THEN [strm EXCEPT !.impl = impl, !.max = max, !.pc = "status",
                                  !.body = "open"]
                ELSE [strm EXCEPT !.impl = impl, !.max = max, !.pc = "done",
                                  !.how = "start",
                                  !.ret = <<"issuing request", "other">>]
    /\ UNCHANGED <<stack, last, query, call>>

\* stream checks the status; if it is OK it derives the cancellable context
\* and starts the goroutine that waits for it
StatusCheck ==
    /\ strm.pc = "status"
    /\ \E ok \in BOOLEAN :
          strm' = IF ok
                THEN [strm EXCEPT !.pc = "decode", !.helper = "waiting"]
                ELSE [strm EXCEPT !.pc = "return", !.how = "status",
                                  !.err = <<"request failed">>]
    /\ UNCHANGED <<stack, last, query, call>>

\* dec.Decode returns the next message
DecodeMsg ==
    /\ strm.pc = "decode"
    /\ strm.sent < MaxMsgs
    /\ \/ strm' = [strm EXCEPT !.sent = @ + 1, !.cur = strm.sent + 1,
                               !.pc = "callback"]
       \/ /\ strm.impl = "tweets"
          /\ strm' = [strm EXCEPT !.sent = @ + 1, !.cur = strm.sent + 1,
                                  !.pc = "return", !.how = "reply",
                                  !.err = <<"decoding stream response", "syntax">>]
    /\ UNCHANGED <<stack, last, query, call>>

\* dec.Decode returns io.EOF: the server has ended the stream
DecodeEOF ==
    /\ strm.pc = "decode"
    /\ strm.body = "open"
    /\ strm' = [strm EXCEPT !.pc = "return", !.how = "eof", !.err = <<>>]
    /\ UNCHANGED <<stack, last, query, call>>

\* dec.Decode fails on what the server sent
DecodeBad ==
    /\ strm.pc = "decode"
    /\ strm.body = "open"
    /\ strm' = [strm EXCEPT !.pc = "return", !.how = "bad",
                            !.err = <<"decoding message from stream", "syntax">>]
    /\ UNCHANGED <<stack, last, query, call>>

\* dec.Decode fails because the body has been closed under the reader
DecodeClosed ==
    /\ strm.pc = "decode"
    /\ strm.body = "closed"
    /\ strm' = [strm EXCEPT !.pc = "return", !.how = "closed",
                            !.err = <<"decoding message from stream", "closed">>]
    /\ UNCHANGED <<stack, last, query, call>>

\* stream calls f on the message: the user's callback for jhttp, the closure
\* of Stream.Invoke for tweets
Callback ==
    /\ strm.pc = "callback"
    /\ \E r \in CallbackReturns : \E tweetOK \in BOOLEAN :
          /\ strm.impl = "jhttp" => tweetOK
          /\ LET nr   == IF strm.impl = "tweets" THEN strm.nr + 1 ELSE strm.nr
                 user == IF tweetOK THEN r ELSE <<>>
                 f    == IF strm.impl = "tweets"
                         THEN Invoke_callback(strm.max, nr, tweetOK, r)
                         ELSE r
                 dlv  == IF tweetOK THEN Append(strm.delivered, strm.cur)
                         ELSE strm.delivered
             IN  /\ ~tweetOK => r = <<>>
                 /\ strm' = IF f = <<>>
                       THEN [strm EXCEPT !.nr = nr, !.delivered = dlv,
                                         !.cbret = user, !.fret = f,
                                         !.pc = "decode"]
                       ELSE [strm EXCEPT !.nr = nr, !.delivered = dlv,
                                         !.cbret = user, !.fret = f,
                                         !.pc = "return", !.how = "callback",
                                         !.err = <<"callback">> \o f]
    /\ UNCHANGED <<stack, last, query, call>>

\* the context given to Stream ends
CtxEnd ==
    /\ strm.pc # "idle"
    /\ strm.ctx = "live"
    /\ strm' = [strm EXCEPT !.ctx = "done"]
    /\ UNCHANGED <<stack, last, query, call>>

\* the goroutine of stream as it would be if it returned without closing the
\* body
HelperClose_noclose ==
    /\ strm.helper = "waiting"
    /\ strm.ctx = "done" \/ strm.cancelled
    /\ strm' = [strm EXCEPT !.helper = "exited"]
    /\ UNCHANGED <<stack, last, query, call>>

\* the goroutine of stream: <-ctx.Done(); body.Close()
HelperClose ==
    /\ strm.helper = "waiting"
    /\ strm.ctx = "done" \/ strm.cancelled
    /\ strm' = [strm EXCEPT !.helper = "exited", !.body = "closed"]
    /\ UNCHANGED <<stack, last, query, call>>

\* stream returns: its deferred cancel (if the context was derived) and
\* body.Close run, and Stream returns what it makes of the error
StreamReturn ==
    /\ strm.pc = "return"
    /\ strm' = [strm EXCEPT
          !.pc = "done",
          !.cancelled = (strm.helper # "none"),
          !.body = "closed",
          !.ret = IF strm.impl = "jhttp" THEN jhttp_Stream_return(strm.err)
                  ELSE twitter_Stream_return(strm.err)]
    /\ UNCHANGED <<stack, last, query, call>>

NextStream ==
    \/ StreamStart
    \/ StatusCheck
    \/ DecodeMsg
    \/ DecodeEOF
    \/ DecodeBad
    \/ DecodeClosed
    \/ Callback
    \/ CtxEnd
    \/ HelperClose
    \/ StreamReturn

SpecStream == Init /\ [][NextStream]_vars

\* The goroutine is scheduled once its context is done; the reader returns
\* from Decode once the body is closed; a callback that has been called
\* returns; a stream that is returning returns.  Nothing makes the server
\* send, end the stream, or the caller's context end.
SpecStreamFair ==
    /\ SpecStream
    /\ WF_vars(HelperClose)
    /\ WF_vars(DecodeClosed)
    /\ WF_vars(Callback)
    /\ WF_vars(StreamReturn)


(***************************************************************************)
(* Properties.                                                             *)
(***************************************************************************)
\* Every node of a tree the builder returns was itself returned by an earlier
\* call, so what holds of the result of every call holds of every query.
\* the nodes of the tree the last call returned
Held == IF last.op = "New" THEN {} ELSE Nodes(last.result)

\* the queries the caller holds
Built == {stack[i] : i \in 1..Len(stack)}

\* the query the last call returned
Returned == IF last.op = "New" THEN {} ELSE {last.result}

IsLeaf(q)       == q.type \in {"solo", "quoted", "nsolo"}
IsCombinator(q) == q.type \in {"andQuery", "orQuery"}

cat    == solo(<<"c","a","t">>)
bigdog == quoted(<<>>, <<"b","i","g",SP,"d","o","g">>)
OR  == <<SP, "O", "R", SP>>

\* C1: a Conjunction or Disjunction is valid iff it is non-empty and at
\* least one (not every) child is valid: And/Or over arguments of which one
\* is standalone is valid whatever the others are, and And/Or over filters
\* and negated filters only is invalid.
C1_AtLeastOneChildValid ==
    /\ \A q \in Held :
          IsCombinator(q) =>
             (Valid(q) <=> (Len(q.qs) # 0 /\ \E i \in 1..Len(q.qs) : Valid(q.qs[i])))
    /\ last.op \in {"And", "Or"} =>
          /\ (\E i \in 1..Len(last.args) : last.args[i].type \in {"solo", "quoted"})
                => Valid(last.result)
          /\ (\A i \in 1..Len(last.args) :
                 \/ last.args[i].type = "nsolo"
                 \/ last.args[i].type = "notQuery" /\ last.args[i].sub.type = "nsolo")
                => ~Valid(last.result)

\* And/Or has been called on a standalone term and a filter-only term
C1_Witness ==
    /\ last.op \in {"And", "Or"}
    /\ Len(last.args) = 2
    /\ last.args[1].type = "nsolo"
    /\ last.args[2].type = "solo"
    /\ IsCombinator(last.result)
    /\ Valid(last.result)

RECURSIVE HasStandaloneLeaf(_)
\* the tree of q contains a Word or Tagged leaf
HasStandaloneLeaf(q) ==
    CASE q.type \in {"solo", "quoted"} -> TRUE
      [] q.type = "nsolo"              -> FALSE
      [] IsCombinator(q)               ->
            \E i \in 1..Len(q.qs) : HasStandaloneLeaf(q.qs[i])
      [] q.type = "notQuery"           -> HasStandaloneLeaf(q.sub)

\* C2: a query built by any sequence of builder calls is valid iff its tree
\* contains at least one standalone leaf (a Word or a Tagged leaf).
C2_ValidIffStandaloneLeaf ==
    \A q \in Returned : Valid(q) <=> HasStandaloneLeaf(q)

\* the last call returned a compound tree, with a negation in it, whose
\* leaves are all filters
C2_Witness ==
    \E q \in Returned :
       /\ IsCombinator(q)
       /\ Len(q.qs) = 2
       /\ q.qs[1].type = "nsolo"
       /\ q.qs[2].type = "notQuery"
       /\ ~HasStandaloneLeaf(q)
       /\ ~Valid(q)

\* C3: Not(q) is valid iff q is valid, for every q.
C3_NotKeepsValidity ==
    /\ last.op = "Not" => (Valid(last.result) <=> Valid(last.args[1]))
    /\ \A q \in Returned : Valid(Builder_Not(q)) <=> Valid(q)

\* Not has been called on a valid compound query
C3_Witness ==
    /\ last.op = "Not"
    /\ last.args[1].type = "orQuery"
    /\ Valid(last.args[1])
    /\ last.result.type = "notQuery"
    /\ Valid(last.result)

\* C4: rendered as the root, the negation of a Conjunction with children
\* c1..cn renders as Or(Not(c1),...,Not(cn)) and the negation of a
\* Disjunction as And(Not(c1),...,Not(cn)); Not(All("cat","big dog"))
\* renders -cat OR -"big dog" and Not(Some("cat","big dog")) renders
\* -cat -"big dog".
C4_DeMorganRender ==
    /\ \A q \in Returned :
          /\ q.type = "andQuery" =>
                String(Builder_Not(q)) =
                   String(Builder_Or([i \in 1..Len(q.qs) |-> Builder_Not(q.qs[i])]))
          /\ q.type = "orQuery" =>
                String(Builder_Not(q)) =
                   String(Builder_And([i \in 1..Len(q.qs) |-> Builder_Not(q.qs[i])]))
    /\ last.op = "Not" /\ last.args[1] = andQuery(<<cat, bigdog>>)
          => String(last.result) =
                <<"-","c","a","t">> \o OR \o <<"-","\"","b","i","g",SP,"d","o","g","\"">>
    /\ last.op = "Not" /\ last.args[1] = orQuery(<<cat, bigdog>>)
          => String(last.result) =
                <<"-","c","a","t",SP,"-","\"","b","i","g",SP,"d","o","g","\"">>

\* Not has been called on All("cat", " big dog")
C4_Witness ==
    /\ last.op = "Not"
    /\ last.args[1] = andQuery(<<cat, bigdog>>)
    /\ last.result = notQuery(last.args[1])

\* Not applied to each child of q, in order
NotEach(q) == [i \in 1..Len(q.qs) |-> Builder_Not(q.qs[i])]

RECURSIVE CountMinus(_), NegatedLeaves(_, _), NegatedLeavesAll(_, _)
\* the number of "-" in a string
CountMinus(s) ==
    IF Len(s) = 0 THEN 0
    ELSE (IF s[1] = "-" THEN 1 ELSE 0) + CountMinus(Tail(s))

\* the number of leaves of q under an odd number of Negation nodes, neg
\* telling whether q itself is under an odd number
NegatedLeaves(q, neg) ==
    CASE IsLeaf(q)           -> IF neg THEN 1 ELSE 0
      [] IsCombinator(q)     -> NegatedLeavesAll(q.qs, neg)
      [] q.type = "notQuery" -> NegatedLeaves(q.sub, ~neg)
NegatedLeavesAll(qs, neg) ==
    IF Len(qs) = 0 THEN 0
    ELSE NegatedLeaves(qs[1], neg) + NegatedLeavesAll(Tail(qs), neg)

C7_DoubleNegationExact ==
    /\ last.op = "Not" /\ last.args[1].type = "notQuery" =>
          last.result = last.args[1].sub
    /\ \A q \in Returned :
          q.type # "notQuery" =>
             LET r == Builder_Not(Builder_Not(q))
             IN  /\ r = q
                 /\ String(r) = String(q)
                 /\ Valid(r) <=> Valid(q)
    /\ \A q \in Held : q.type = "notQuery" => q.sub.type # "notQuery"

\* Not has been called on the negation of a Conjunction and returned the
\* Conjunction
C7_Witness ==
    /\ last.op = "Not"
    /\ last.args[1].type = "notQuery"
    /\ last.args[1].sub.type = "andQuery"
    /\ Len(last.args[1].sub.qs) = 2
    /\ last.result = last.args[1].sub

\* C8: flattening is associative: And(And(a,b),c), And(a,b,c) and
\* And(a,And(b,c)) render the same for all queries a, b, c, and likewise Or
\* (a, b, c being queries the caller holds, in the order it holds them; it
\* can hold any three in any order).
C8_FlatteningAssociative ==
    \A i \in 1..Len(stack) : \A j \in i..Len(stack) : \A k \in j..Len(stack) :
       LET a == stack[i]
           b == stack[j]
           c == stack[k]
           flatAnd == String(Builder_And(<<a, b, c>>))
           flatOr  == String(Builder_Or(<<a, b, c>>))
       IN  /\ String(Builder_And(<<Builder_And(<<a, b>>), c>>)) = flatAnd
           /\ String(Builder_And(<<a, Builder_And(<<b, c>>)>>)) = flatAnd
           /\ String(Builder_Or(<<Builder_Or(<<a, b>>), c>>)) = flatOr
           /\ String(Builder_Or(<<a, Builder_Or(<<b, c>>)>>)) = flatOr

\* the caller holds a Conjunction of two children and an empty Disjunction
\* to combine
C8_Witness ==
    /\ \E a \in Built : a.type = "andQuery" /\ Len(a.qs) = 2
    /\ \E b \in Built : b.type = "orQuery" /\ Len(b.qs) = 0
    /\ last.op = "Or"

RECURSIVE Splice(_, _)
\* qs with every element of the given type replaced by its children
Splice(qs, type) ==
    IF Len(qs) = 0 THEN <<>>
    ELSE (IF qs[1].type = type THEN qs[1].qs ELSE <<qs[1]>>)
            \o Splice(Tail(qs), type)

\* C9: And/Or called with more than one argument replaces every argument of
\* its own kind, the empty node of And()/Or() included, by its children; no
\* Conjunction has a Conjunction as a direct child and no Disjunction a
\* Disjunction.
C9_NoSameKindChild ==
    /\ \A q \in Held :
          IsCombinator(q) => \A i \in 1..Len(q.qs) : q.qs[i].type # q.type
    /\ last.op = "And" /\ Len(last.args) > 1 =>
          last.result = andQuery(Splice(last.args, "andQuery"))
    /\ last.op = "Or" /\ Len(last.args) > 1 =>
          last.result = orQuery(Splice(last.args, "orQuery"))

\* C10: And() and Or() with no arguments (All() and Some() likewise) return
\* an empty node that is invalid and renders as the empty string, and its
\* negation is invalid too.
C10_EmptyCombinator ==
    /\ last.op \in {"And", "All"} /\ Len(last.args) = 0 =>
          last.result = andQuery(<<>>)
    /\ last.op \in {"Or", "Some"} /\ Len(last.args) = 0 =>
          last.result = orQuery(<<>>)
    /\ last.op \in {"And", "All", "Or", "Some"} /\ Len(last.args) = 0 =>
          /\ ~Valid(last.result)
          /\ String(last.result) = <<>>
          /\ ~Valid(Builder_Not(last.result))
    /\ last.op = "Not" /\ IsCombinator(last.args[1]) /\ Len(last.args[1].qs) = 0 =>
          ~Valid(last.result)

\* Or has been called with no arguments
C10_Witness ==
    /\ last.op = "Or"
    /\ last.args = <<>>
    /\ last.result = orQuery(<<>>)
    /\ String(last.result) = <<>>

\* C11: And(q) and Or(q) with one argument (All and Some likewise) return q
\* unchanged, and no Conjunction or Disjunction in a tree the builder returns
\* has exactly one child.
C11_NoSingleChild ==
    /\ last.op \in {"And", "Or", "All", "Some"} /\ Len(last.args) = 1 =>
          last.result = last.args[1]
    /\ \A q \in Held : IsCombinator(q) => Len(q.qs) # 1

\* And has been called on a single Disjunction and returned it
C11_Witness ==
    /\ last.op = "And"
    /\ Len(last.args) = 1
    /\ last.args[1].type = "orQuery"
    /\ Len(last.args[1].qs) = 2
    /\ last.result = last.args[1]

RECURSIVE Compound(_)
\* compound, as the data model defines it: a Conjunction or Disjunction of
\* more than one child, or a Negation of a compound query
Compound(q) ==
    CASE IsCombinator(q)       -> Len(q.qs) > 1
      [] q.type = "notQuery"   -> Compound(q.sub)
      [] OTHER                 -> FALSE

\* the render of q as a child: in parentheses iff q is compound
AsChild(q) == IF Compound(q) THEN <<"(">> \o String(q) \o <<")">> ELSE String(q)

\* C12: a Conjunction renders its children joined by a space and a
\* Disjunction joined by " OR ", each child in parentheses iff it is
\* compound; leaves and negated leaves are never parenthesized.
C12_ParenthesesIffCompound ==
    /\ \A q \in Returned :
          /\ q.type = "andQuery" =>
                String(q) = Join([i \in 1..Len(q.qs) |-> AsChild(q.qs[i])], <<SP>>)
          /\ q.type = "orQuery" =>
                String(q) = Join([i \in 1..Len(q.qs) |-> AsChild(q.qs[i])], OR)
    /\ \A a \in Built : \A b \in Built :
          /\ a.type # "orQuery" /\ b.type # "orQuery" =>
                String(Builder_Or(<<a, b>>)) = AsChild(a) \o OR \o AsChild(b)
          /\ a.type # "andQuery" /\ b.type # "andQuery" =>
                String(Builder_And(<<a, b>>)) = AsChild(a) \o <<SP>> \o AsChild(b)
          /\ (IsLeaf(a) \/ (a.type = "notQuery" /\ IsLeaf(a.sub))) =>
                /\ String(Builder_Or(<<a, b>>))[1] # "("
                /\ String(Builder_And(<<a, b>>))[1] # "("

\* the caller holds the negation of a Conjunction of two children and a leaf,
\* and their Disjunction renders the negation in parentheses
C12_Witness ==
    \E a \in Built : \E b \in Built :
       /\ a.type = "andQuery"
       /\ Len(a.qs) = 2
       /\ IsLeaf(b)
       /\ String(Builder_Or(<<a, b>>)) =
             <<"(">> \o String(a) \o <<")">> \o OR \o String(b)
       /\ String(Builder_Or(<<Builder_Not(a), b>>))[1] = "("

RECURSIVE Leaves(_), LeavesAll(_), FirstAt(_, _, _), RenderedInOrder(_, _)
\* the leaves of a tree, left to right, and of a sequence of trees
Leaves(q) ==
    CASE IsLeaf(q)           -> <<q>>
      [] IsCombinator(q)     -> LeavesAll(q.qs)
      [] q.type = "notQuery" -> Leaves(q.sub)
LeavesAll(qs) ==
    IF Len(qs) = 0 THEN <<>> ELSE Leaves(qs[1]) \o LeavesAll(Tail(qs))

\* the first position at or after i where t occurs in s, or 0
FirstAt(t, s, i) ==
    IF i + Len(t) - 1 > Len(s) THEN 0
    ELSE IF SubSeq(s, i, i + Len(t) - 1) = t THEN i
    ELSE FirstAt(t, s, i + 1)

\* the renders of the leaves ls occur in s one after the other, in order
RenderedInOrder(ls, s) ==
    IF Len(ls) = 0 THEN TRUE
    ELSE LET t == String(ls[1])
             i == FirstAt(t, s, 1)
         IN  /\ i # 0
             /\ RenderedInOrder(Tail(ls), SubSeq(s, i + Len(t), Len(s)))

\* C13: And/Or (All/Some) keep the order of their arguments, the children
\* of a spliced argument taking its place in their own order: the leaves of
\* the result are those of the arguments in argument order, and the render
\* of the result shows them in that order.
C13_ArgumentOrderKept ==
    last.op \in {"And", "Or", "All", "Some"} =>
       /\ Leaves(last.result) = LeavesAll(last.args)
       /\ RenderedInOrder(LeavesAll(last.args), String(last.result))
       /\ Len(last.args) > 1 =>
             \A i \in 1..Len(last.args) :
                ~IsCombinator(last.args[i]) =>
                   \E j \in i..Len(last.result.qs) : last.result.qs[j] = last.args[i]

\* And has been called on a Conjunction of two different leaves and a third
\* leaf, different again
C13_Witness ==
    /\ last.op = "And"
    /\ Len(last.args) = 2
    /\ last.args[1].type = "andQuery"
    /\ Len(last.args[1].qs) = 2
    /\ last.args[1].qs[1] # last.args[1].qs[2]
    /\ IsLeaf(last.args[2])
    /\ last.args[2] \notin {last.args[1].qs[1], last.args[1].qs[2]}
    /\ last.result = andQuery(last.args[1].qs \o <<last.args[2]>>)

QUOTE == "\""

\* the texts that are s without the whitespace around it (there is one)
TrimsOf(s) ==
    { SubSeq(s, p[1] + 1, Len(s) - p[2]) :
         p \in { p \in (0..Len(s)) \X (0..Len(s)) :
                    /\ p[1] + p[2] <= Len(s)
                    /\ \A k \in 1..p[1] : IsSpace(s[k])
                    /\ \A k \in (Len(s) - p[2] + 1)..Len(s) : IsSpace(s[k])
                    /\ p[1] + p[2] < Len(s) =>
                          ~IsSpace(s[p[1] + 1]) /\ ~IsSpace(s[Len(s) - p[2]]) } }

HasSpaceOrTab(t) == \E k \in 1..Len(t) : t[k] \in {SP, TAB}

HasWhitespace(t) == \E k \in 1..Len(t) : IsSpace(t[k])

\* C15: Word(s) renders s without its surrounding whitespace, in double
\* quotes iff that trimmed text contains a space or a tab and bare otherwise,
\* and is valid either way.
C15_WordTrimmedQuotedIffSpaceOrTab ==
    last.op = "Word" =>
       \E t \in TrimsOf(last.args[1]) :
          /\ HasSpaceOrTab(t)  => String(last.result) = <<QUOTE>> \o t \o <<QUOTE>>
          /\ ~HasSpaceOrTab(t) => String(last.result) = t
          /\ Valid(last.result)

\* Word has been called on a string with whitespace around a text that
\* contains a tab, and rendered the text in quotes
C15_Witness ==
    /\ last.op = "Word"
    /\ last.args[1] = <<SP, "a", TAB, "a">>
    /\ String(last.result) = <<QUOTE, "a", TAB, "a", QUOTE>>

\* C16 as stated: whenever the trimmed text contains any whitespace
\* character, the render of the Word begins and ends with a double quote.
C16_QuotedOnAnyWhitespace ==
    last.op = "Word" =>
       \A t \in TrimsOf(last.args[1]) :
          HasWhitespace(t) =>
             LET r == String(last.result)
             IN  Len(r) >= 2 /\ r[1] = QUOTE /\ r[Len(r)] = QUOTE

\* C16: the render of a Word begins and ends with a double quote whenever
\* the trimmed text contains a space or a tab; a trimmed text whose only
\* whitespace is newlines or carriage returns is rendered bare, as it is.
C16_QuotedOnSpaceOrTabOnly ==
    last.op = "Word" =>
       \A t \in TrimsOf(last.args[1]) :
          HasWhitespace(t) =>
             LET r == String(last.result)
             IN  IF HasSpaceOrTab(t)
                 THEN Len(r) >= 2 /\ r[1] = QUOTE /\ r[Len(r)] = QUOTE
                 ELSE r = t /\ r[1] # QUOTE

\* Word has been called on a text with a newline inside and rendered it bare
C16_Witness ==
    /\ last.op = "Word"
    /\ last.args[1] = <<"a", "\n", "a">>
    /\ String(last.result) = <<"a", "\n", "a">>

\* C17: for x that does not start with the sigil, Hashtag("#"+x) and
\* Hashtag(x) both render "#"+x, and Mention("@"+x) and Mention(x) both
\* render "@"+x.
C17_RedundantSigilStripped ==
    last.op \in {"Hashtag", "Mention"} =>
       LET sigil == IF last.op = "Hashtag" THEN "#" ELSE "@"
           s     == last.args[1]
           x     == IF s # <<>> /\ s[1] = sigil THEN Tail(s) ELSE s
           B(y)  == IF last.op = "Hashtag" THEN Builder_Hashtag(y)
                    ELSE Builder_Mention(y)
       IN  (x = <<>> \/ x[1] # sigil) =>
              /\ String(last.result) = <<sigil>> \o x
              /\ String(B(x)) = <<sigil>> \o x
              /\ String(B(<<sigil>> \o x)) = <<sigil>> \o x

\* Hashtag has been called on "#a" and rendered "#a"
C17_Witness ==
    /\ last.op = "Hashtag"
    /\ last.args[1] = <<"#", "a">>
    /\ String(last.result) = <<"#", "a">>

\* C18: Not of a leaf is a Negation that renders as "-" followed at once by
\* the leaf's render: -"text" for a quoted Word, -from:user for a tagged
\* leaf, -is:retweet for a filter.
C18_NegatedLeafRender ==
    last.op = "Not" /\ IsLeaf(last.args[1]) =>
       LET leaf == last.args[1]
           r    == String(last.result)
       IN  /\ last.result = notQuery(leaf)
           /\ r = <<"-">> \o String(leaf)
           /\ leaf.type = "quoted" =>
                 r = <<"-", QUOTE>> \o leaf.arg \o <<QUOTE>>
           /\ leaf = Builder_From(<<"a">>) =>
                 r = <<"-", "f", "r", "o", "m", ":", "a">>
           /\ leaf = Builder_IsRetweet =>
                 r = <<"-", "i", "s", ":", "r", "e", "t", "w", "e", "e", "t">>

\* Not has been called on the quoted Word "a a" and rendered -"a a"
C18_Witness ==
    /\ last.op = "Not"
    /\ last.args[1] = quoted(<<>>, <<"a", SP, "a">>)
    /\ String(last.result) = <<"-", QUOTE, "a", SP, "a", QUOTE>>

\* the next-page token a response reports: that of its metadata, or "" when
\* it carries no metadata
Reported(rsp) == IF rsp.meta = "good" THEN rsp.next ELSE <<>>

\* C19: HasMorePages is true of a freshly constructed query, and of an
\* invoked query where the server has not reported a next-page token.
C19_MorePagesWhenNoTokenReported ==
    /\ call.op = "Lookup" => HasMorePages(query)
    /\ call.op = "Invoke" /\ call.err = "nil" /\ Reported(call.rsp) = <<>> =>
          HasMorePages(query)

\* C20: after a successful Invoke of a tweets query its page token is the
\* next_token of the reply's metadata ("" when the reply reports none or
\* has no metadata), and an Invoke that follows sends that token.
C20_PageTokenIsNextToken ==
    [][ /\ Invoke /\ query.pkg = "tweets" /\ call'.err = "nil" =>
             PageToken(query') = Reported(call'.rsp)
        /\ Invoke /\ query.pkg = "tweets" /\ call.op = "Invoke" /\ call.err = "nil" =>
             /\ nextTokenParam("tweets") \in DOMAIN call'.sent
             /\ call'.sent[nextTokenParam("tweets")] = <<Reported(call.rsp)>>
      ]_vars

\* a tweets query has been invoked with the token "t" of the reply before,
\* and the reply to that reported the token "tt"
C20_Witness ==
    /\ query.pkg = "tweets"
    /\ call.op = "Invoke"
    /\ call.err = "nil"
    /\ nextTokenParam("tweets") \in DOMAIN call.sent
    /\ call.sent[nextTokenParam("tweets")] = << <<"t">> >>
    /\ call.rsp.next = <<"t", "t">>
    /\ PageToken(query) = <<"t", "t">>

\* C21: when the server's stream ends normally (end of input, every
\* callback having returned nil), Stream of jhttp returns a nil error.
C21_NormalEndReturnsNil ==
    strm.impl = "jhttp" /\ strm.pc = "done" /\ strm.how = "eof" =>
       strm.ret = <<>>

\* C22: Stream of jhttp invokes the callback once per message, in arrival
\* order; the first non-nil error the callback returns ends the stream with
\* no further invocation; Stream then returns nil if that error is
\* ErrStopStreaming and otherwise a non-nil *Error wrapping it.
C22_CallbackErrorReported ==
    strm.impl = "jhttp" =>
       /\ strm.delivered = [i \in 1..Len(strm.delivered) |-> i]
       /\ Len(strm.delivered) = IF strm.pc = "callback" THEN strm.sent - 1
                                ELSE strm.sent
       /\ strm.pc \in {"return", "done"} /\ strm.how = "callback" =>
             /\ strm.cbret # <<>>
             /\ strm.delivered[Len(strm.delivered)] = strm.cur
       /\ strm.pc = "done" /\ strm.how = "callback" =>
             IF strm.cbret = <<"ErrStopStreaming">> THEN strm.ret = <<>>
             ELSE /\ IsError(strm.ret)
                  /\ Tail(strm.ret) = strm.cbret

\* C23: a tweets Stream with MaxResults = m > 0 delivers at most m results
\* to the user's callback in one Invoke and, once the m-th invocation has
\* returned nil, stops streaming and returns nil; with MaxResults <= 0 (or
\* nil options) the stream is stopped only by what the callback returns.
C23_MaxResultsCap ==
    strm.impl = "tweets" =>
       /\ strm.max > 0 => Len(strm.delivered) <= strm.max
       /\ strm.max > 0 /\ Len(strm.delivered) = strm.max /\ strm.cbret = <<>> =>
             /\ strm.pc \in {"return", "done"}
             /\ strm.how = "callback"
             /\ strm.fret = <<"ErrStopStreaming">>
             /\ strm.pc = "done" => strm.ret = <<>>
       /\ strm.max <= 0 /\ strm.fret = <<"ErrStopStreaming">> =>
             strm.cbret = <<"ErrStopStreaming">>

\* a tweets Stream with MaxResults = 2 has delivered two results, the
\* callback returning nil both times, and Invoke has returned nil
C23_Witness ==
    /\ strm.impl = "tweets"
    /\ strm.max = 2
    /\ strm.delivered = <<1, 2>>
    /\ strm.cbret = <<>>
    /\ strm.pc = "done"
    /\ strm.ret = <<>>

\* C30: when the context given to Stream ends while the reader is at
\* Decode, the body is closed and Stream eventually returns; no callback is
\* invoked after Stream has returned; and whenever stream returns after the
\* status check, the goroutine that waits for the context terminates and
\* the body is closed.
C30_ContextEndUnblocksAndCleansUp ==
    /\ (strm.ctx = "done" /\ strm.pc = "decode") ~> (strm.body = "closed")
    /\ (strm.ctx = "done" /\ strm.pc = "decode") ~> (strm.pc = "done")
    /\ [][strm.pc = "done" => strm'.delivered = strm.delivered
                              /\ strm'.nr = strm.nr /\ strm'.pc = "done"]_vars
    /\ (strm.pc = "return" /\ strm.helper = "waiting") ~>
          (strm.pc = "done" /\ strm.helper = "exited" /\ strm.body = "closed")

\* the context ended while the reader was at Decode, after one message had
\* been delivered; the goroutine closed the body and has terminated, Decode
\* failed on the closed body, and Stream has returned that error
C30_Witness ==
    /\ strm.ctx = "done"
    /\ strm.how = "closed"
    /\ strm.pc = "done"
    /\ strm.helper = "exited"
    /\ strm.body = "closed"
    /\ strm.delivered = <<1>>
    /\ IsError(strm.ret)

\* C24: invoking the query of lists.Create against a server that answers
\* with success and a single list object completes normally and returns the
\* reply; it does not fault on the request's Params.
C24_CreateInvokeCompletes ==
    /\ call.op = "Invoke"
    /\ query.pkg = "lists"
    /\ ~query.made
    /\ call.rsp.ok
    /\ call.rsp.data = "good"
    /\ call.rsp.meta = "none"
    => call.err = "nil"

C27_FailedInvokeKeepsToken ==
    call.op = "Invoke" /\ call.err \notin {"nil", PANIC} =>
       /\ query.params = call.sent
       /\ HasMorePages(query) = HasMorePages([query EXCEPT !.params = call.sent])

String_calls_renegate(q) ==
    CASE q.type \in {"orQuery", "andQuery"} -> {q.qs[i] : i \in 1..Len(q.qs)}
      [] q.type = "notQuery" ->
            IF q.sub.type = "andQuery"
            THEN {notQuery(newOrQuery(q.sub.qs))}
            ELSE IF q.sub.type = "orQuery"
            THEN {notQuery(newAndQuery(q.sub.qs))}
            ELSE {q.sub}
      [] OTHER -> {}

\* the queries String(q) calls String on: the elements of a combinator (in
\* compile), the rewritten query or the operand of a negation
String_calls(q) ==
    CASE q.type \in {"orQuery", "andQuery"} -> {q.qs[i] : i \in 1..Len(q.qs)}
      [] q.type = "notQuery" ->
            IF q.sub.type = "andQuery"
            THEN {newOrQuery(negateAll(q.sub.qs))}
            ELSE IF q.sub.type = "orQuery"
            THEN {newAndQuery(negateAll(q.sub.qs))}
            ELSE {q.sub}
      [] OTHER -> {}

\* the queries Valid(q) calls Valid on (in isStandalone for a combinator)
Valid_calls(q) ==
    CASE q.type \in {"orQuery", "andQuery"} -> {q.qs[i] : i \in 1..Len(q.qs)}
      [] q.type = "notQuery" -> {q.sub}
      [] OTHER -> {}

\* the queries isCompound(q) calls isCompound on
isCompound_calls(q) == IF q.type = "notQuery" THEN {q.sub} ELSE {}

RECURSIVE Rank(_), RankAll(_), Rendered(_, _)
\* a measure of a tree: a negation counts twice its operand
Rank(q) ==
    CASE q.type \in {"orQuery", "andQuery"} -> 1 + RankAll(q.qs)
      [] q.type = "notQuery"                -> 2 * Rank(q.sub)
      [] OTHER                              -> 1
RankAll(qs) == IF Len(qs) = 0 THEN 0 ELSE Rank(qs[1]) + RankAll(Tail(qs))

\* the queries String is called on in rendering q, to a call depth of k
Rendered(q, k) ==
    IF k = 0 THEN {q}
    ELSE {q} \cup UNION {Rendered(c, k - 1) : c \in String_calls(q)}

\* a string: a finite sequence of characters
IsString(s) == DOMAIN s = 1..Len(s) /\ \A i \in 1..Len(s) : s[i] \in STRING

\* the query the last call returned, and the negation of a combinator over
\* it, a combinator of it and its negation
Nested ==
    Returned \cup
    {Builder_Not(Builder_Or(<<Builder_And(<<q, cat>>), Builder_Not(q), q>>)) :
        q \in Returned}

\* C28: every render and validate call terminates and returns a value: each
\* call String makes in rendering a query (for a negated combinator, on the
\* negated sub-queries it constructs) is on a query of strictly smaller
\* rank, each call Valid and isCompound make is on a strictly smaller
\* subtree, and String returns a string and Valid a boolean.
C28_RenderValidateTerminate ==
    \A q \in Nested :
       /\ \A n \in Rendered(q, Rank(q)) :
             /\ \A c \in String_calls(n) : Rank(c) < Rank(n)
             /\ n.type = "notQuery" /\ IsCombinator(n.sub) =>
                   \A c \in String_calls(n) : String(n) = String(c)
             /\ \A m \in Nodes(n) :
                   \A c \in Valid_calls(m) \cup isCompound_calls(m) :
                      Size(c) < Size(m)
       /\ IsString(String(q))
       /\ Valid(q) \in BOOLEAN

\* Not has returned the negation of a combinator that has a combinator
\* among its children, and its render, through the negated sub-queries, is a
\* string
C28_Witness ==
    /\ last.op = "Not"
    /\ last.result.type = "notQuery"
    /\ IsCombinator(last.result.sub)
    /\ \E i \in 1..Len(last.result.sub.qs) : IsCombinator(last.result.sub.qs[i])
    /\ IsString(String(last.result))
    /\ \A c \in String_calls(last.result) : Rank(c) < Rank(last.result)

\* C29: every query whose Valid is true renders to a non-empty string, so a
\* caller that checks Valid before transmitting never sends an empty query
\* parameter.
C29_ValidRendersNonEmpty ==
    \A q \in Returned : Valid(q) => String(q) # <<>>

=============================================================================
